---- MODULE Spec2Model ----
(***************************************************************************)
(* The knowledge graph view (src/unnamed/part_002, the KnowledgeGraph      *)
(* component): the graph builder (the graphData memo) and the force        *)
(* simulation with its pointer handlers (the animation effect).            *)
(*                                                                         *)
(* Numbers.  The component computes in IEEE doubles.  Here every length,   *)
(* position, velocity and force is a fixed-point integer counting          *)
(* 1/SCALE pixel, divisions truncate toward zero (Div) and the square root *)
(* is the integer square root (Hypot). Comparisons of a distance with a    *)
(* whole number of units (dist < radius + 5) are exact under this          *)
(* representation: floor(sqrt q) < R iff sqrt q < R for an integer R.      *)
(***************************************************************************)
EXTENDS Integers, Sequences, FiniteSets, TLC

VARIABLES
    currentNote,   \* prop currentNote: the focal entity
    allNotes,      \* prop allNotes: the pool, a sequence of notes
    graphData,     \* the memo: [nodes |-> Seq(Node), links |-> Seq(Link)]
    width, height, \* the effect's width / height (closure variables)
    draggingNode,  \* draggingNode.current: an index into graphData.nodes, 0 = null
    mouseX, mouseY,\* the effect's mouseX / mouseY (closure variables)
    hoveredNode,   \* state hoveredNode: an index into graphData.nodes, 0 = null
    hoveredLink,   \* state hoveredLink: [link, x, y], link an index into graphData.links, 0 = null
    rafPending,    \* the requestAnimationFrame callbacks pending: [id, loop], id the handle
                   \* returned by requestAnimationFrame, loop the effect run whose animate it is
    reqRef,        \* reqRef.current: the handle of the latest request, 0 before the first
    loop,          \* the effect run whose closure is the current one (the number of setups so far)
    listeners,     \* the listeners attached to the window and the canvas: [type, loop]
    mounted,       \* the component is mounted
    build,         \* the run of the memo that made graphData (the number of builds so far)
    hoverBuild,    \* the build whose node or link hoveredNode / hoveredLink is, 0 if both null
    seenHover,     \* the hoveredNode of the render whose effect run is the current one (the
                   \* value animate's closure reads): [node, build], node 0 for null
    canvas,        \* the canvas's buffer: [width, height] and the context's scale
    nav,           \* the argument of the onSelectNote call made by the latest step, NoId if none
    lastOp,        \* the handler that ran in the latest step
    ptr,           \* where the pointer is (the coordinates of the latest pointer event)
    gesture,       \* observation of the pointer gesture in progress: where the button went
                   \* down, the nodes hit there (hits, the first in list order: first),
                   \* whether the pointer moved (moved) or a frame ran (frame) since, and
                   \* whether nothing else happened since (clean); phase is "up" right
                   \* after the button's release
    repLog,        \* observation: repLog[i][j] = repulsion added to node i because of node j in the latest frame
    frames,        \* number of frames executed so far
    events         \* number of events handled so far (pointer, resize, render, unmount)

vars == <<currentNote, allNotes, graphData, width, height, draggingNode, mouseX,
          mouseY, hoveredNode, hoveredLink, rafPending, reqRef, loop, listeners,
          mounted, build, hoverBuild, seenHover, canvas, nav, lastOp, ptr, gesture,
          repLog, frames, events>>

(***************************************************************************)
(* Fixed-point arithmetic                                                  *)
(***************************************************************************)
SCALE == 10 * 10

Min(a, b) == IF a <= b THEN a ELSE b

Abs(a) == IF a >= 0 THEN a ELSE -a

\* a / b of the doubles, truncated toward zero (b > 0)
Div(a, b) == IF a >= 0 THEN a \div b ELSE -((-a) \div b)

\* Newton's iteration from an estimate x >= sqrt(q) > 0 down to floor(sqrt(q))
RECURSIVE SqrtFrom(_, _)
SqrtFrom(q, x) ==
    LET y == (x + q \div x) \div 2
    IN  IF y >= x THEN x ELSE SqrtFrom(q, y)

\* Math.sqrt(dx * dx + dy * dy) in units: the integer square root, found from
\* the estimate |dx| + |dy|, which is never below it
Hypot(dx, dy) ==
    IF dx = 0 /\ dy = 0 THEN 0 ELSE SqrtFrom(dx * dx + dy * dy, Abs(dx) + Abs(dy))

(***************************************************************************)
(* Notes (the entities passed in as props)                                 *)
(***************************************************************************)
NoId == "none"

\* a Note as far as the component reads it: id, content.length,
\* metadata.lifeAxis and metadata.smartLinks (a missing or non-array
\* smartLinks is the empty sequence: neither is iterated)
MkNote(id, len, axis, links) == [id |-> id, len |-> len, axis |-> axis, links |-> links]

MkSmartLink(targetId, reason) == [targetId |-> targetId, reason |-> reason]

\* hoveredNode = null, as a closure holds it
NoHover == [node |-> 0, build |-> 0]

\* hoveredLink = null
NoLink == [link |-> 0, x |-> 0, y |-> 0]

\* the pointer is not over the canvas
Outside == <<-1, -1>>

\* no pointer gesture observed
NoGesture == [phase |-> "idle", downPt |-> Outside, hits |-> {}, first |-> 0,
              moved |-> FALSE, frame |-> FALSE, clean |-> TRUE]

(***************************************************************************)
(* 1. Prepare Graph Data (the graphData memo)                              *)
(***************************************************************************)
FOCAL_RADIUS == 20

BASE_RADIUS == 8

LENGTH_DIVISOR == 500

RADIUS_CAP == 10

\* mergedNotes: every pool entry with the focal id is replaced by currentNote;
\* currentNote is pushed when no entry has its id
MergedNotes(cur, pool) ==
    LET m == [i \in 1..Len(pool) |-> IF pool[i].id = cur.id THEN cur ELSE pool[i]]
    IN  IF \E i \in 1..Len(m) : m[i].id = cur.id THEN m ELSE Append(m, cur)

\* the colour switch on metadata.lifeAxis
AxisColor(axis) ==
    CASE axis = "Career"          -> "#3b82f6"
      [] axis = "Health"          -> "#10b981"
      [] axis = "Creative Output" -> "#8b5cf6"
      [] axis = "Learning"        -> "#f59e0b"
      [] axis = "Relationships"   -> "#f43f5e"
      [] axis = "Mental State"    -> "#06b6d4"
      [] OTHER                    -> "#64748b"

\* radius: isCurrent ? 20 : 8 + Math.min(n.content.length / 500, 10), in units
RadiusUncapped(len, isCurrent) ==
    IF isCurrent THEN FOCAL_RADIUS * SCALE
    ELSE BASE_RADIUS * SCALE + Div(len * SCALE, LENGTH_DIVISOR)

Radius(len, isCurrent) ==
    IF isCurrent THEN FOCAL_RADIUS * SCALE
    ELSE BASE_RADIUS * SCALE + Min(Div(len * SCALE, LENGTH_DIVISOR), RADIUS_CAP * SCALE)

\* the node built for merged note n; p = <<x, y>> is the pair of Math.random draws
MkNode(n, cur, p) ==
    LET isCurrent == (n.id = cur.id)
    IN  [id |-> n.id, len |-> n.len, axis |-> n.axis, links |-> n.links,
         x |-> p[1], y |-> p[2], vx |-> 0, vy |-> 0,
         radius |-> Radius(n.len, isCurrent),
         isCurrent |-> isCurrent,
         color |-> IF isCurrent THEN "#ffffff" ELSE AxisColor(n.axis)]

BuildNodes(cur, pool, draw) ==
    LET m == MergedNotes(cur, pool)
    IN  [i \in 1..Len(m) |-> MkNode(m[i], cur, draw[i])]

\* nodeMap.has(id)
NodeMapHas(nodes, id) == \E i \in 1..Len(nodes) : nodes[i].id = id

\* links.some(l => (l.source === s && l.target === t) || (l.source === t && l.target === s))
LinkExistsDirected(links, s, t) ==
    \E k \in 1..Len(links) : links[k].source = s /\ links[k].target = t

LinkExists(links, s, t) ==
    \E k \in 1..Len(links) :
        \/ (links[k].source = s /\ links[k].target = t)
        \/ (links[k].source = t /\ links[k].target = s)

\* one iteration of sourceNode.metadata.smartLinks.forEach
AddSmartLinkUnchecked(links, nodes, sourceId, sl) ==
    IF ~LinkExists(links, sourceId, sl.targetId)
    THEN Append(links, [source |-> sourceId, target |-> sl.targetId, reason |-> sl.reason])
    ELSE links

AddSmartLink(links, nodes, sourceId, sl) ==
    IF NodeMapHas(nodes, sl.targetId) /\ ~LinkExists(links, sourceId, sl.targetId)
    THEN Append(links, [source |-> sourceId, target |-> sl.targetId, reason |-> sl.reason])
    ELSE links

RECURSIVE AddSmartLinks(_, _, _, _, _)
AddSmartLinks(links, nodes, sourceId, sls, k) ==
    IF k > Len(sls) THEN links
    ELSE AddSmartLinks(AddSmartLink(links, nodes, sourceId, sls[k]), nodes, sourceId, sls, k + 1)

\* nodes.forEach(sourceNode => ...), from node i on
RECURSIVE BuildLinks(_, _, _)
BuildLinks(nodes, i, links) ==
    IF i > Len(nodes) THEN links
    ELSE BuildLinks(nodes, i + 1, AddSmartLinks(links, nodes, nodes[i].id, nodes[i].links, 1))

\* the memo's value for props (cur, pool) and random draws draw
Build(cur, pool, draw) ==
    LET nodes == BuildNodes(cur, pool, draw)
    IN  [nodes |-> nodes, links |-> BuildLinks(nodes, 1, <<>>)]

(***************************************************************************)
(* The builder on its own: the props the caller can supply                 *)
(***************************************************************************)
MaxPool == 2

MaxLinks == 3

Ids == {"a", "b", "c"}

\* a link target that is the id of no note
DanglingId == "z"

FocalId == "a"

\* content length and life axis of the focal note and of the pool's notes;
\* the pool's entry with the focal id differs from the focal note
FocalProfile == [len |-> 1000, axis |-> "Health"]

PoolProfile == [id \in Ids |->
    CASE id = "a" -> [len |-> 2500, axis |-> "Career"]
      [] id = "b" -> [len |-> 0, axis |-> "none"]
      [] OTHER    -> [len |-> 6000, axis |-> "Learning"]]

\* the reason of the k-th smart link declared by the note in slot s
\* (slot 0: currentNote, slot i: allNotes[i]); every declared link has its own
ReasonAt(s, k) == <<s, k>>

\* Math.random draws of a build whose positions play no part
OriginDraw == [i \in 1..(MaxPool + 2) |-> <<0, 0>>]

TotalLinks == Len(currentNote.links) +
    Cardinality({<<i, k>> \in (1..Len(allNotes)) \X (1..MaxLinks) : k <= Len(allNotes[i].links)})

\* the view's own state while only the memo is exercised
ViewIdle ==
    /\ width = 0 /\ height = 0 /\ draggingNode = 0 /\ mouseX = 0 /\ mouseY = 0
    /\ hoveredNode = 0 /\ hoveredLink = NoLink /\ nav = NoId
    /\ rafPending = {} /\ reqRef = 0 /\ loop = 0 /\ listeners = {} /\ mounted = FALSE
    /\ build = 1 /\ hoverBuild = 0 /\ seenHover = NoHover
    /\ canvas = [width |-> 0, height |-> 0, scale |-> 1]
    /\ ptr = Outside /\ gesture = NoGesture /\ repLog = <<>> /\ frames = 0 /\ events = 0

viewVars == <<width, height, draggingNode, mouseX, mouseY, hoveredNode, hoveredLink,
              rafPending, reqRef, loop, listeners, mounted, build, hoverBuild, seenHover,
              canvas, nav, ptr, gesture, repLog, frames, events>>

InitBuild ==
    /\ currentNote = MkNote(FocalId, FocalProfile.len, FocalProfile.axis, <<>>)
    /\ allNotes = <<>>
    /\ graphData = Build(currentNote, allNotes, OriginDraw)
    /\ lastOp = "build"
    /\ ViewIdle

\* the caller renders with a pool that holds one more note
PoolGrows ==
    /\ Len(allNotes) < MaxPool
    /\ \E id \in Ids :
           allNotes' = Append(allNotes, MkNote(id, PoolProfile[id].len, PoolProfile[id].axis, <<>>))
    /\ graphData' = Build(currentNote, allNotes', OriginDraw)
    /\ lastOp' = "build"
    /\ UNCHANGED <<currentNote, viewVars>>

\* the caller renders with a focal note that declares one more smart link
FocalLinks ==
    /\ TotalLinks < MaxLinks
    /\ \E t \in Ids \cup {DanglingId} :
           currentNote' = [currentNote EXCEPT !.links =
               Append(@, MkSmartLink(t, ReasonAt(0, Len(@) + 1)))]
    /\ graphData' = Build(currentNote', allNotes, OriginDraw)
    /\ lastOp' = "build"
    /\ UNCHANGED <<allNotes, viewVars>>

\* the caller renders with a pool one of whose notes declares one more smart link
PoolLinks ==
    /\ TotalLinks < MaxLinks
    /\ \E i \in 1..Len(allNotes), t \in Ids \cup {DanglingId} :
           allNotes' = [allNotes EXCEPT ![i].links =
               Append(@, MkSmartLink(t, ReasonAt(i, Len(@) + 1)))]
    /\ graphData' = Build(currentNote, allNotes', OriginDraw)
    /\ lastOp' = "build"
    /\ UNCHANGED <<currentNote, viewVars>>

NextBuild == PoolGrows \/ FocalLinks \/ PoolLinks

SpecBuild == InitBuild /\ [][NextBuild]_vars

(***************************************************************************)
(* The radius rule on its own: notes of many content lengths, no links     *)
(***************************************************************************)
ContentLengths == {0, 5, 495, 500, 2500, 4995, 5000, 5005, 10000}

InitRadius ==
    /\ \E len \in ContentLengths : currentNote = MkNote(FocalId, len, "none", <<>>)
    /\ allNotes = <<>>
    /\ graphData = Build(currentNote, allNotes, OriginDraw)
    /\ lastOp = "build"
    /\ ViewIdle

\* the caller renders with a pool that holds one more note, of any length
PoolGrowsLong ==
    /\ Len(allNotes) < MaxPool
    /\ \E id \in Ids, len \in ContentLengths :
           allNotes' = Append(allNotes, MkNote(id, len, "none", <<>>))
    /\ graphData' = Build(currentNote, allNotes', OriginDraw)
    /\ lastOp' = "build"
    /\ UNCHANGED <<currentNote, viewVars>>

NextRadius == PoolGrowsLong

SpecRadius == InitRadius /\ [][NextRadius]_vars

(***************************************************************************)
(* 2. Physics Simulation & Rendering Loop (the effect)                     *)
(***************************************************************************)
REPULSION == 1200

SPRING_LENGTH == 180

\* SPRING_STRENGTH = 0.04, DAMPING = 0.85, in hundredths
SPRING_STRENGTH_PCT == 4

DAMPING_PCT == 85

\* CENTER_PULL = 0.008, in thousandths
CENTER_PULL_PERMILLE == 8

\* the dragged node's pull: 0.1 = 1 / DRAG_PULL_DIV
DRAG_PULL_DIV == 10

BOUNDARY_PAD == 10

HIT_TOLERANCE == 5

CLICK_TOLERANCE == 10

\* graphData.nodes.find(n => n.id === id): the first node with the id, 0 if none
FindNode(ns, id) ==
    IF \E i \in 1..Len(ns) : ns[i].id = id
    THEN CHOOSE i \in 1..Len(ns) : ns[i].id = id /\ \A j \in 1..(i - 1) : ns[j].id # id
    ELSE 0

\* the repulsion added to node's force because of other: <<fx, fy>>
RepForce(node, other) ==
    LET dx == node.x - other.x
        dy == node.y - other.y
        d0 == Hypot(dx, dy)
        dist == IF d0 = 0 \/ d0 < SCALE THEN SCALE ELSE d0
        force == Div(REPULSION * SCALE * SCALE * SCALE, dist * dist)
    IN  <<Div(dx * force, dist), Div(dy * force, dist)>>

RECURSIVE RepulsionFrom(_, _, _)
RepulsionFrom(ns, i, j) ==
    IF j > Len(ns) THEN <<0, 0>>
    ELSE LET rest == RepulsionFrom(ns, i, j + 1)
             f == IF j = i THEN <<0, 0>> ELSE RepForce(ns[i], ns[j])
         IN  <<f[1] + rest[1], f[2] + rest[2]>>

\* the spring force link adds to node i: <<fx, fy>>
SpringForceSelfPush(ns, link, i) ==
    LET source == FindNode(ns, link.source)
        target == FindNode(ns, link.target)
    IN  IF source = 0 \/ target = 0 THEN <<0, 0>>
        ELSE IF i = source \/ i = target
        THEN LET other == IF i = source THEN target ELSE source
                 d0 == Hypot(ns[i].x - ns[other].x, ns[i].y - ns[other].y)
                 dx == IF d0 = 0 THEN SCALE ELSE ns[i].x - ns[other].x
                 dy == ns[i].y - ns[other].y
                 dist == IF d0 = 0 THEN SCALE ELSE d0
                 displacement == dist - SPRING_LENGTH * SCALE
                 force == Div(displacement * SPRING_STRENGTH_PCT, 100)
             IN  <<-Div(dx * force, dist), -Div(dy * force, dist)>>
        ELSE <<0, 0>>

SpringForce(ns, link, i) ==
    LET source == FindNode(ns, link.source)
        target == FindNode(ns, link.target)
    IN  IF source = 0 \/ target = 0 THEN <<0, 0>>
        ELSE IF i = source \/ i = target
        THEN LET other == IF i = source THEN target ELSE source
                 dx == ns[i].x - ns[other].x
                 dy == ns[i].y - ns[other].y
                 d0 == Hypot(dx, dy)
                 dist == IF d0 = 0 THEN SCALE ELSE d0
                 displacement == dist - SPRING_LENGTH * SCALE
                 force == Div(displacement * SPRING_STRENGTH_PCT, 100)
             IN  <<-Div(dx * force, dist), -Div(dy * force, dist)>>
        ELSE <<0, 0>>

RECURSIVE AttractionFrom(_, _, _, _)
AttractionFrom(ns, ls, i, k) ==
    IF k > Len(ls) THEN <<0, 0>>
    ELSE LET rest == AttractionFrom(ns, ls, i, k + 1)
             f == SpringForce(ns, ls[k], i)
         IN  <<f[1] + rest[1], f[2] + rest[2]>>

\* the four boundary tests, in the code's order
BounceShrinks(n, w, h) ==
    LET padding == n.radius + BOUNDARY_PAD * SCALE
        n1 == IF n.x < padding THEN [n EXCEPT !.x = padding, !.vx = -n.vx] ELSE n
        n2 == IF n1.x > w - padding THEN [n1 EXCEPT !.x = w - padding, !.vx = -n1.vx] ELSE n1
        n3 == IF n2.y < padding THEN [n2 EXCEPT !.y = padding, !.vy = -n2.vy] ELSE n2
        n4 == IF n3.y > h - padding THEN [n3 EXCEPT !.y = h - padding, !.vy = -n3.vy] ELSE n3
    IN  [n4 EXCEPT !.radius = IF n4.x # n.x \/ n4.y # n.y THEN @ - SCALE ELSE @]

Bounce(n, w, h) ==
    LET padding == n.radius + BOUNDARY_PAD * SCALE
        n1 == IF n.x < padding THEN [n EXCEPT !.x = padding, !.vx = -n.vx] ELSE n
        n2 == IF n1.x > w - padding THEN [n1 EXCEPT !.x = w - padding, !.vx = -n1.vx] ELSE n1
        n3 == IF n2.y < padding THEN [n2 EXCEPT !.y = padding, !.vy = -n2.vy] ELSE n2
        n4 == IF n3.y > h - padding THEN [n3 EXCEPT !.y = h - padding, !.vy = -n3.vy] ELSE n3
    IN  n4

\* node i after the forces, the damping and the integration, before the
\* boundary tests
Integrate(ns, ls, i, w, h) ==
    LET rep == RepulsionFrom(ns, i, 1)
        att == AttractionFrom(ns, ls, i, 1)
        fx == rep[1] + att[1] + Div((Div(w, 2) - ns[i].x) * CENTER_PULL_PERMILLE, 1000)
        fy == rep[2] + att[2] + Div((Div(h, 2) - ns[i].y) * CENTER_PULL_PERMILLE, 1000)
        vx == Div((ns[i].vx + fx) * DAMPING_PCT, 100)
        vy == Div((ns[i].vy + fy) * DAMPING_PCT, 100)
    IN  [ns[i] EXCEPT !.vx = vx, !.vy = vy, !.x = @ + vx, !.y = @ + vy]

\* the body of the physics forEach for node i, on the nodes as they are when
\* its turn comes (the nodes before i have moved already)
StepNodeDragOnly(ns, ls, i, drag, mx, my, w, h) ==
    IF i = drag
    THEN [ns[i] EXCEPT !.vx = Div(mx - ns[i].x, DRAG_PULL_DIV),
                       !.vy = Div(my - ns[i].y, DRAG_PULL_DIV)]
    ELSE IF drag # 0 THEN ns[i]
    ELSE Bounce(Integrate(ns, ls, i, w, h), w, h)

StepNode(ns, ls, i, drag, mx, my, w, h) ==
    IF i = drag
    THEN [ns[i] EXCEPT !.vx = Div(mx - ns[i].x, DRAG_PULL_DIV),
                       !.vy = Div(my - ns[i].y, DRAG_PULL_DIV)]
    ELSE Bounce(Integrate(ns, ls, i, w, h), w, h)

\* the nodes after the physics forEach has handled nodes 1..i
RECURSIVE PhysicsUpTo(_, _, _, _, _, _, _, _)
PhysicsUpTo(ns, ls, i, drag, mx, my, w, h) ==
    IF i = 0 THEN ns
    ELSE LET before == PhysicsUpTo(ns, ls, i - 1, drag, mx, my, w, h)
         IN  [before EXCEPT ![i] = StepNode(before, ls, i, drag, mx, my, w, h)]

\* what the repulsion loop of the frame adds to node i because of node j
RepulsionLog(ns, ls, drag, mx, my, w, h) ==
    [i \in 1..Len(ns) |->
        LET before == PhysicsUpTo(ns, ls, i - 1, drag, mx, my, w, h)
        IN  [j \in 1..Len(ns) |->
                IF i = drag \/ j = i THEN <<0, 0>> ELSE RepForce(before[i], before[j])]]

(***************************************************************************)
(* Hit detection                                                           *)
(***************************************************************************)
\* dist < n.radius + 5 of handleMouseDown and handleMouseMove
NodeHit(n, x, y) == Hypot(n.x - x, n.y - y) < n.radius + HIT_TOLERANCE * SCALE

\* graphData.nodes.find(hit): the first node hit, 0 if none
LastNodeHit(ns, x, y) ==
    IF \E i \in 1..Len(ns) : NodeHit(ns[i], x, y)
    THEN CHOOSE i \in 1..Len(ns) :
             NodeHit(ns[i], x, y) /\ \A j \in (i + 1)..Len(ns) : ~NodeHit(ns[j], x, y)
    ELSE 0

FirstNodeHit(ns, x, y) ==
    IF \E i \in 1..Len(ns) : NodeHit(ns[i], x, y)
    THEN CHOOSE i \in 1..Len(ns) :
             NodeHit(ns[i], x, y) /\ \A j \in 1..(i - 1) : ~NodeHit(ns[j], x, y)
    ELSE 0

\* the segment test of handleMouseMove; param = dot / len_sq is kept in thousandths
LinkHit(ns, l, x, y) ==
    LET source == FindNode(ns, l.source)
        target == FindNode(ns, l.target)
    IN  IF source = 0 \/ target = 0 THEN FALSE
        ELSE LET A == x - ns[source].x
                 B == y - ns[source].y
                 C == ns[target].x - ns[source].x
                 D == ns[target].y - ns[source].y
                 dot == A * C + B * D
                 len_sq == C * C + D * D
                 near == IF len_sq = 0 \/ dot < 0 THEN <<ns[source].x, ns[source].y>>
                         ELSE IF dot > len_sq THEN <<ns[target].x, ns[target].y>>
                         ELSE LET param == IF len_sq <= 2000000 THEN Div(dot * 1000, len_sq)
                                           ELSE Div(dot, Div(len_sq, 1000))
                              IN  <<ns[source].x + Div(param * C, 1000),
                                    ns[source].y + Div(param * D, 1000)>>
             IN  Hypot(x - near[1], y - near[2]) < HIT_TOLERANCE * SCALE

\* graphData.links.find(hit): the first link hit, 0 if none
FirstLinkHit(ns, ls, x, y) ==
    IF \E k \in 1..Len(ls) : LinkHit(ns, ls[k], x, y)
    THEN CHOOSE k \in 1..Len(ls) :
             LinkHit(ns, ls[k], x, y) /\ \A j \in 1..(k - 1) : ~LinkHit(ns, ls[j], x, y)
    ELSE 0

(***************************************************************************)
(* The mounted view: the effect's setup, the frame callback, the handlers  *)
(***************************************************************************)
MaxFrames == 1

MaxEvents == 4

\* the props of the mounted view: the focal note a declares a link to b,
\* the pool holds b (short) and c (long); b and c have no edge
SimFocal == MkNote("a", 1000, "Health", <<MkSmartLink("b", "why")>>)

SimPool == <<MkNote("b", 0, "none", <<>>), MkNote("c", 6000, "Career", <<>>)>>

\* Math.random draws of the build, in units (nodes b, c, a): b inside the
\* canvas but nearer to its corner than radius + 10, or b and c a pixel apart
InitDraws == {<<<<300, 500>>, <<15000, 10000>>, <<10000, 6000>>>>,
              <<<<6000, 4000>>, <<6100, 4000>>, <<15000, 10000>>>>}

\* Math.random draws of a rebuild while mounted: b and c a pixel apart
RebuildDraws == {<<<<6000, 4000>>, <<6100, 4000>>, <<15000, 10000>>>>}

\* (Math.random() - 0.5) * 100 of the initial centring, in units
Jitters == {<<-5000, 2500>>, <<4900, 0>>}

\* container.clientWidth / clientHeight, in units
InitViewport == <<24000, 18000>>

Viewports == {<<24000, 18000>>, <<0, 0>>}

\* where pointer events land, relative to a node's centre
Offsets == {<<1200, 0>>, <<-1200, 0>>}

InCanvas(p) == p[1] >= 0 /\ p[1] <= width /\ p[2] >= 0 /\ p[2] <= height

\* the middle of link l's segment
MidPoint(l) ==
    LET source == FindNode(graphData.nodes, l.source)
        target == FindNode(graphData.nodes, l.target)
    IN  <<Div(graphData.nodes[source].x + graphData.nodes[target].x, 2),
          Div(graphData.nodes[source].y + graphData.nodes[target].y, 2)>>

\* the source end of link l's segment: the centre of its source node
SourceEnd(l) ==
    LET source == FindNode(graphData.nodes, l.source)
    IN  <<graphData.nodes[source].x, graphData.nodes[source].y>>

\* the points pointer events land on: beside the centre of each node but the
\* focal one, in the middle and at the source end of each link (the focal
\* node's centre), in the canvas's corner
PointerTargets ==
    {p \in {<<graphData.nodes[i].x + o[1], graphData.nodes[i].y + o[2]>> :
                i \in {k \in 1..Len(graphData.nodes) : ~graphData.nodes[k].isCurrent},
                o \in Offsets}
            \cup {MidPoint(graphData.links[k]) : k \in 1..Len(graphData.links)}
            \cup {SourceEnd(graphData.links[k]) : k \in 1..Len(graphData.links)}
            \cup {<<0, 0>>} : InCanvas(p)}

\* "Center nodes initially if fresh"
RecenterSkipped(ns, w, h, jit) == ns

Recenter(ns, w, h, jit) ==
    [i \in 1..Len(ns) |->
        IF ns[i].x = 0 /\ ns[i].y = 0
        THEN [ns[i] EXCEPT !.x = Div(w, 2) + jit[1], !.y = Div(h, 2) + jit[2]]
        ELSE ns[i]]

\* the Math.random draws of the re-centring: none is made when no node is
\* at (0, 0)
JittersFor(ns) ==
    IF \E i \in 1..Len(ns) : ns[i].x = 0 /\ ns[i].y = 0 THEN Jitters ELSE {<<0, 0>>}

ZeroLog(n) == [i \in 1..n |-> [j \in 1..n |-> <<0, 0>>]]

\* a gesture that has ended is no longer observed
Observed(g) == IF g.phase = "up" THEN NoGesture ELSE g

\* the event types setup registers a listener for (resize on the window, the
\* others on the canvas)
ListenerTypes == {"resize", "mousedown", "mousemove", "mouseup", "mouseleave"}

\* the event types whose listener the cleanup removes: the mouseleave listener
\* is an inline arrow function, no removeEventListener names it
RemovedTypes == {"resize", "mousedown", "mousemove", "mouseup"}

\* the addEventListener calls of effect run g
AddListeners(L, g) == L \cup {[type |-> t, loop |-> g] : t \in ListenerTypes}

\* the removeEventListener calls of the cleanup of effect run g
RemoveListeners(L, g) == {l \in L : ~(l.loop = g /\ l.type \in RemovedTypes)}

\* the handle requestAnimationFrame returns with callbacks P pending: one that
\* no pending callback has.  (The browser counts handles up; cancelAnimationFrame
\* only needs them to differ from the handles still pending, so a handle whose
\* callback has run or was cancelled is handed out again.)
NewHandle(P) ==
    CHOOSE h \in 1..(Cardinality(P) + 1) :
        /\ \A cb \in P : cb.id # h
        /\ \A k \in 1..(h - 1) : \E cb \in P : cb.id = k

\* requestAnimationFrame(animate) by effect run g
RequestFrameDropped(P, g) == P

RequestFrame(P, g) == P \cup {[id |-> NewHandle(P), loop |-> g]}

\* if (reqRef.current) cancelAnimationFrame(reqRef.current)
CancelFrameSkipped(P, h) == P

CancelFrame(P, h) == IF h # 0 THEN {cb \in P : cb.id # h} ELSE P

\* window.devicePixelRatio || 1
DevicePixelRatio == 2

\* what handleResize leaves in the canvas for a container w by h: assigning
\* canvas.width resets the context's transform, ctx.scale then sets it
SetCanvasUnscaled(w, h) == [width |-> w, height |-> h, scale |-> 1]

SetCanvas(w, h) ==
    [width |-> w * DevicePixelRatio, height |-> h * DevicePixelRatio,
     scale |-> DevicePixelRatio]

\* the hoveredNode a render hands to the effect's closure: node h of build b
Capture(h, b) == IF h = 0 THEN NoHover ELSE [node |-> h, build |-> b]

\* the build of the hovered node or link, 0 when neither is set
HoverOrigin(h, l, b) == IF h = 0 /\ l.link = 0 THEN 0 ELSE b

\* the listener of effect run loop for events of type t is attached
Attached(t) == mounted /\ [type |-> t, loop |-> loop] \in listeners

\* the effect re-runs on graph g after a render whose hoveredNode is hov: the
\* cleanup of run loop, then the setup of
\* run loop + 1 (handleResize reads the container's size, which the latest
\* resize event left in width and height)
Resetup(g, hov) ==
    /\ loop' = loop + 1
    /\ listeners' = AddListeners(RemoveListeners(listeners, loop), loop + 1)
    /\ LET P == CancelFrame(rafPending, reqRef)
       IN  /\ reqRef' = NewHandle(P)
           /\ rafPending' = RequestFrame(P, loop + 1)
    /\ draggingNode' = 0 /\ mouseX' = 0 /\ mouseY' = 0
    /\ \E jit \in JittersFor(g.nodes) :
           graphData' = [g EXCEPT !.nodes = Recenter(@, width, height, jit)]
    /\ seenHover' = hov
    /\ canvas' = SetCanvas(width, height)
    /\ UNCHANGED <<width, height, mounted>>

\* the nodes the drawing step gives the hover outline and the hover label:
\* those that are (===) the hoveredNode hov of animate's closure, b being the
\* build of the nodes drawn
HoverOutlined(ns, hov, b) == {i \in 1..Len(ns) : hov.node = i /\ hov.build = b}

\* the state after the first render and the first run of the effect
Init ==
    /\ currentNote = SimFocal
    /\ allNotes = SimPool
    /\ width = InitViewport[1] /\ height = InitViewport[2]
    /\ \E draw \in InitDraws, jit \in Jitters :
           graphData = [Build(currentNote, allNotes, draw) EXCEPT
                           !.nodes = Recenter(@, width, height, jit)]
    /\ draggingNode = 0 /\ mouseX = 0 /\ mouseY = 0
    /\ hoveredNode = 0 /\ hoveredLink = NoLink
    /\ mounted = TRUE /\ loop = 1
    /\ build = 1 /\ hoverBuild = 0 /\ seenHover = NoHover
    /\ canvas = SetCanvas(width, height)
    /\ listeners = AddListeners({}, 1)
    /\ rafPending = RequestFrame({}, 1) /\ reqRef = NewHandle({})
    /\ nav = NoId /\ lastOp = "setup" /\ ptr = Outside /\ gesture = NoGesture
    /\ repLog = ZeroLog(Len(graphData.nodes))
    /\ frames = 0 /\ events = 0

\* the browser runs pending frame callback cb: animate (the physics step, the
\* drawing step, the next frame requested).  The closure variables of the
\* current effect run are the only ones kept.
Frame(cb) ==
    /\ cb \in rafPending
    /\ graphData' = [graphData EXCEPT !.nodes =
           PhysicsUpTo(@, graphData.links, Len(@), draggingNode, mouseX, mouseY, width, height)]
    /\ repLog' = RepulsionLog(graphData.nodes, graphData.links, draggingNode,
                              mouseX, mouseY, width, height)
    /\ LET P == rafPending \ {cb}
       IN  /\ reqRef' = NewHandle(P)
           /\ rafPending' = RequestFrame(P, cb.loop)
    /\ nav' = NoId /\ lastOp' = "animate"
    /\ gesture' = [Observed(gesture) EXCEPT !.frame = (gesture.phase = "down")]
    /\ UNCHANGED <<currentNote, allNotes, width, height, draggingNode, mouseX, mouseY,
                   hoveredNode, hoveredLink, loop, listeners, mounted, build, hoverBuild,
                   seenHover, canvas, ptr, events>>

Animate ==
    /\ frames < MaxFrames
    /\ frames' = frames + 1
    /\ \E cb \in rafPending : Frame(cb)

\* handleMouseDown, at the pointer's position
MouseDown ==
    /\ Attached("mousedown")
    /\ events < MaxEvents /\ InCanvas(ptr)
    /\ LET clickedNode == FirstNodeHit(graphData.nodes, ptr[1], ptr[2])
       IN  /\ draggingNode' = IF clickedNode # 0 THEN clickedNode ELSE draggingNode
           /\ gesture' = [phase |-> "down", downPt |-> ptr,
                          hits |-> {i \in 1..Len(graphData.nodes) :
                                       NodeHit(graphData.nodes[i], ptr[1], ptr[2])},
                          first |-> clickedNode, moved |-> FALSE, frame |-> FALSE,
                          clean |-> TRUE]
    /\ events' = events + 1
    /\ nav' = NoId /\ lastOp' = "mousedown"
    /\ UNCHANGED <<currentNote, allNotes, graphData, width, height, mouseX, mouseY,
                   hoveredNode, hoveredLink, rafPending, reqRef, loop, listeners, mounted,
                   build, hoverBuild, seenHover, canvas, ptr, repLog, frames>>

\* the hit detection of handleMouseMove at (x, y): the node and the link handed
\* to setHoveredNode and setHoveredLink (0 for null)
HoverResultBoth(ns, ls, x, y) ==
    [node |-> FirstNodeHit(ns, x, y), link |-> FirstLinkHit(ns, ls, x, y)]

HoverResultLinkFirst(ns, ls, x, y) ==
    LET linkHit == FirstLinkHit(ns, ls, x, y)
    IN  [node |-> IF linkHit = 0 THEN FirstNodeHit(ns, x, y) ELSE 0, link |-> linkHit]

HoverResult(ns, ls, x, y) ==
    LET hovered == FirstNodeHit(ns, x, y)
    IN  [node |-> hovered, link |-> IF hovered = 0 THEN FirstLinkHit(ns, ls, x, y) ELSE 0]

\* handleMouseMove to p; a hoveredLink that changes re-runs the effect
\* (hoveredLink is one of its dependencies): cleanup, then setup
MouseMove(p) ==
    /\ Attached("mousemove")
    /\ events < MaxEvents
    /\ ptr' = p
    /\ IF draggingNode # 0
       THEN /\ mouseX' = p[1] /\ mouseY' = p[2]
            /\ gesture' = [Observed(gesture) EXCEPT !.moved = (gesture.phase = "down")]
            /\ UNCHANGED <<graphData, draggingNode, hoveredNode, hoveredLink, rafPending,
                           reqRef, loop, listeners, width, height, mounted, hoverBuild,
                           seenHover, canvas>>
       ELSE LET hit == HoverResult(graphData.nodes, graphData.links, p[1], p[2])
                rerun == hit.link # 0 \/ hoveredLink.link # 0
            IN  /\ hoveredNode' = hit.node
                /\ hoveredLink' = IF hit.link # 0
                                  THEN [link |-> hit.link, x |-> p[1], y |-> p[2]]
                                  ELSE NoLink
                /\ hoverBuild' = HoverOrigin(hoveredNode', hoveredLink', build)
                /\ IF rerun
                   THEN Resetup(graphData, Capture(hit.node, build))
                   ELSE /\ mouseX' = p[1] /\ mouseY' = p[2]
                        /\ UNCHANGED <<graphData, draggingNode, rafPending, reqRef, loop,
                                       listeners, width, height, mounted, seenHover, canvas>>
                /\ gesture' = [Observed(gesture) EXCEPT !.moved = (gesture.phase = "down"),
                                                        !.clean = @ /\ ~rerun]
    /\ events' = events + 1
    /\ nav' = NoId /\ lastOp' = "mousemove"
    /\ UNCHANGED <<currentNote, allNotes, build, repLog, frames>>

\* the id handleMouseUp passes to onSelectNote for dragged node n released at
\* (x, y), NoId when it makes no call
NavRequestAnyNode(n, x, y) ==
    IF Hypot(n.x - x, n.y - y) < n.radius + CLICK_TOLERANCE * SCALE THEN n.id ELSE NoId

NavRequest(n, x, y) ==
    IF Hypot(n.x - x, n.y - y) < n.radius + CLICK_TOLERANCE * SCALE /\ n.id # currentNote.id
    THEN n.id
    ELSE NoId

\* handleMouseUp, at the pointer's position
MouseUp ==
    /\ Attached("mouseup")
    /\ events < MaxEvents /\ InCanvas(ptr)
    /\ IF draggingNode # 0
       THEN nav' = NavRequest(graphData.nodes[draggingNode], ptr[1], ptr[2])
       ELSE nav' = NoId
    /\ draggingNode' = 0
    /\ gesture' = [gesture EXCEPT !.phase = IF @ = "down" THEN "up" ELSE "idle"]
    /\ events' = events + 1
    /\ lastOp' = "mouseup"
    /\ UNCHANGED <<currentNote, allNotes, graphData, width, height, mouseX, mouseY,
                   hoveredNode, hoveredLink, rafPending, reqRef, loop, listeners, mounted,
                   build, hoverBuild, seenHover, canvas, ptr, repLog, frames>>

\* the draggingNode the mouseleave listener leaves, d being the one it finds
LeaveDragKept(d) == d

LeaveDrag(d) == 0

\* the mouseleave listeners: the one of the current effect run clears its
\* draggingNode; those left attached by earlier runs clear the draggingNode of
\* their own closures, which nothing reads any more
MouseLeave ==
    /\ Attached("mouseleave")
    /\ events < MaxEvents /\ InCanvas(ptr)
    /\ draggingNode' = LeaveDrag(draggingNode)
    /\ ptr' = Outside
    /\ gesture' = [Observed(gesture) EXCEPT !.clean = FALSE]
    /\ events' = events + 1
    /\ nav' = NoId /\ lastOp' = "mouseleave"
    /\ UNCHANGED <<currentNote, allNotes, graphData, width, height, mouseX, mouseY,
                   hoveredNode, hoveredLink, rafPending, reqRef, loop, listeners, mounted,
                   build, hoverBuild, seenHover, canvas, repLog, frames>>

\* handleResize, the container now w by h
Resize(w, h) ==
    /\ Attached("resize")
    /\ events < MaxEvents
    /\ <<w, h>> # <<width, height>>
    /\ width' = w /\ height' = h
    /\ canvas' = SetCanvas(w, h)
    /\ gesture' = [Observed(gesture) EXCEPT !.clean = FALSE]
    /\ events' = events + 1
    /\ nav' = NoId /\ lastOp' = "resize"
    /\ UNCHANGED <<currentNote, allNotes, graphData, draggingNode, mouseX, mouseY,
                   hoveredNode, hoveredLink, rafPending, reqRef, loop, listeners, mounted,
                   build, hoverBuild, seenHover, ptr, repLog, frames>>

\* the caller renders the view with new props and the effect re-runs.  With
\* rebuilt, currentNote or allNotes is a new object of the same content: the
\* memo builds new nodes at the positions draw.  Without, only onSelectNote is
\* new (the caller passes an inline arrow function) and the memo's value stays.
\* hoveredNode and hoveredLink keep their values: after a rebuild they are
\* objects of the graph before it.
PropsChange(rebuilt, draw) ==
    /\ mounted
    /\ events < MaxEvents
    /\ Resetup(IF rebuilt THEN Build(currentNote, allNotes, draw) ELSE graphData,
               Capture(hoveredNode, hoverBuild))
    /\ gesture' = [Observed(gesture) EXCEPT !.clean = FALSE]
    /\ events' = events + 1
    /\ build' = IF rebuilt THEN build + 1 ELSE build
    /\ nav' = NoId /\ lastOp' = IF rebuilt THEN "rebuild" ELSE "rerender"
    /\ UNCHANGED <<currentNote, allNotes, hoveredNode, hoveredLink, hoverBuild, ptr, repLog,
                   frames>>

\* the view unmounts: the cleanup of the current effect run
Unmount ==
    /\ mounted
    /\ events < MaxEvents
    /\ events' = events + 1
    /\ mounted' = FALSE
    /\ listeners' = RemoveListeners(listeners, loop)
    /\ rafPending' = CancelFrame(rafPending, reqRef)
    /\ nav' = NoId /\ lastOp' = "unmount"
    /\ gesture' = [Observed(gesture) EXCEPT !.clean = FALSE]
    /\ UNCHANGED <<currentNote, allNotes, graphData, width, height, draggingNode, mouseX,
                   mouseY, hoveredNode, hoveredLink, reqRef, loop, build, hoverBuild,
                   seenHover, canvas, ptr, repLog, frames>>

Next ==
    \/ Animate
    \/ MouseDown
    \/ \E p \in PointerTargets : MouseMove(p)
    \/ MouseUp
    \/ MouseLeave
    \/ \E v \in Viewports : Resize(v[1], v[2])
    \/ \E rebuilt \in BOOLEAN, draw \in RebuildDraws : PropsChange(rebuilt, draw)
    \/ Unmount

Spec == Init /\ [][Next]_vars

(***************************************************************************)
(* The loop left running: frames are not capped (they are counted modulo   *)
(* FrameWrap), the graph is the focal note alone, near the centre; the     *)
(* pointer hovers, the caller re-renders, the view unmounts                *)
(***************************************************************************)
FrameWrap == 2

LiveFocal == MkNote("a", 1000, "Health", <<>>)

LivePool == <<>>

\* the Math.random draws of the builds: the node a pixel off the centre, where
\* the centre pull on it is below one unit and the frames leave it at rest
LiveDraws == {<<<<11900, 9000>>>>, <<<<12000, 8900>>>>}

InitLive ==
    /\ currentNote = LiveFocal
    /\ allNotes = LivePool
    /\ width = InitViewport[1] /\ height = InitViewport[2]
    /\ \E draw \in LiveDraws, jit \in Jitters :
           graphData = [Build(currentNote, allNotes, draw) EXCEPT
                           !.nodes = Recenter(@, width, height, jit)]
    /\ draggingNode = 0 /\ mouseX = 0 /\ mouseY = 0
    /\ hoveredNode = 0 /\ hoveredLink = NoLink
    /\ mounted = TRUE /\ loop = 1
    /\ build = 1 /\ hoverBuild = 0 /\ seenHover = NoHover
    /\ canvas = SetCanvas(width, height)
    /\ listeners = AddListeners({}, 1)
    /\ rafPending = RequestFrame({}, 1) /\ reqRef = NewHandle({})
    /\ nav = NoId /\ lastOp = "setup" /\ ptr = Outside /\ gesture = NoGesture
    /\ repLog = ZeroLog(Len(graphData.nodes))
    /\ frames = 0 /\ events = 0

AnimateLive ==
    /\ frames' = (frames + 1) % FrameWrap
    /\ \E cb \in rafPending : Frame(cb)

NextLive ==
    \/ AnimateLive
    \/ \E p \in PointerTargets : MouseMove(p)
    \/ \E rebuilt \in BOOLEAN, draw \in LiveDraws : PropsChange(rebuilt, draw)
    \/ Unmount

\* the browser runs a pending frame callback at its next repaint
SpecLive == InitLive /\ [][NextLive]_vars /\ WF_vars(AnimateLive)

(***************************************************************************)
(* Pointer gestures on their own: the pointer rests on the canvas when     *)
(* the view mounts; no resize, re-render or unmount                        *)
(***************************************************************************)
\* the Math.random draws of the build: b and c a pixel apart
GestureDraws == RebuildDraws

InitGesture ==
    /\ currentNote = SimFocal
    /\ allNotes = SimPool
    /\ width = InitViewport[1] /\ height = InitViewport[2]
    /\ \E draw \in GestureDraws, jit \in Jitters :
           graphData = [Build(currentNote, allNotes, draw) EXCEPT
                           !.nodes = Recenter(@, width, height, jit)]
    /\ draggingNode = 0 /\ mouseX = 0 /\ mouseY = 0
    /\ hoveredNode = 0 /\ hoveredLink = NoLink
    /\ mounted = TRUE /\ loop = 1
    /\ build = 1 /\ hoverBuild = 0 /\ seenHover = NoHover
    /\ canvas = SetCanvas(width, height)
    /\ listeners = AddListeners({}, 1)
    /\ rafPending = RequestFrame({}, 1) /\ reqRef = NewHandle({})
    /\ nav = NoId /\ lastOp = "setup" /\ gesture = NoGesture
    /\ ptr \in PointerTargets
    /\ repLog = ZeroLog(Len(graphData.nodes))
    /\ frames = 0 /\ events = 0

NextGesture ==
    \/ Animate
    \/ MouseDown
    \/ \E p \in PointerTargets : MouseMove(p)
    \/ MouseUp
    \/ MouseLeave

SpecGesture == InitGesture /\ [][NextGesture]_vars

(***************************************************************************)
(* The forces on their own: a linked pair at many distances (a declares a  *)
(* link to itself and one to b), a third note drawn inside or outside the  *)
(* canvas; frames and resizes                                              *)
(***************************************************************************)
ForceFocal == MkNote("a", 1000, "Health", <<MkSmartLink("a", "self"), MkSmartLink("b", "why")>>)

ForcePool == <<MkNote("b", 0, "none", <<>>), MkNote("c", 6000, "Career", <<>>)>>

\* where the build's draw puts a, in units
ForceAnchor == <<3000, 9000>>

\* the draws of b relative to a: on it, less than a pixel off, a pixel off,
\* nearer than, at and beyond the spring's rest length
PairOffsets ==
    {<<0, 0>>, <<50, 0>>, <<0, 99>>, <<100, 0>>, <<300, 400>>, <<5000, 0>>,
     <<18000, 0>>, <<0, -8000>>, <<20000, 6000>>}

\* the draws of c: inside the canvas, above and left of it
ThirdDraws == {<<12000, 4000>>, <<-2000, -3000>>, <<12000, -3000>>}

\* the Math.random draws of the build (nodes b, c, a)
ForceDraws ==
    {<<<<ForceAnchor[1] + o[1], ForceAnchor[2] + o[2]>>, c, ForceAnchor>> :
        o \in PairOffsets, c \in ThirdDraws}

\* the view's own state after the first run of the effect, in viewport v
FirstSetup(v) ==
    /\ width = v[1] /\ height = v[2]
    /\ draggingNode = 0 /\ mouseX = 0 /\ mouseY = 0
    /\ hoveredNode = 0 /\ hoveredLink = NoLink
    /\ mounted = TRUE /\ loop = 1
    /\ build = 1 /\ hoverBuild = 0 /\ seenHover = NoHover
    /\ canvas = SetCanvas(width, height)
    /\ listeners = AddListeners({}, 1)
    /\ rafPending = RequestFrame({}, 1) /\ reqRef = NewHandle({})
    /\ nav = NoId /\ lastOp = "setup" /\ ptr = Outside /\ gesture = NoGesture
    /\ frames = 0 /\ events = 0

InitForces ==
    /\ currentNote = ForceFocal
    /\ allNotes = ForcePool
    /\ FirstSetup(InitViewport)
    /\ \E draw \in ForceDraws, jit \in Jitters :
           graphData = [Build(currentNote, allNotes, draw) EXCEPT
                           !.nodes = Recenter(@, width, height, jit)]
    /\ repLog = ZeroLog(Len(graphData.nodes))

NextForces ==
    \/ Animate
    \/ \E v \in Viewports : Resize(v[1], v[2])

SpecForces == InitForces /\ [][NextForces]_vars

(***************************************************************************)
(* Rebuilds: the parent passes another focal note or another pool, in a    *)
(* viewport wider than the range of the build's draws                      *)
(***************************************************************************)
WideViewport == <<90000, 40000>>

\* the focal notes and the pools the parent passes
RebuildFocals == {SimFocal, SimPool[1]}

RebuildPools == {SimPool, <<SimPool[1]>>}

\* the Math.random draws of a build: one of them exactly (0, 0), or none
WideDraws ==
    {<<<<0, 0>>, <<15000, 20000>>, <<30000, 10000>>>>,
     <<<<20000, 25000>>, <<0, 0>>, <<35000, 15000>>>>,
     <<<<-5000, 10000>>, <<20000, 25000>>, <<35000, 15000>>>>}

InitRebuild ==
    /\ currentNote = SimFocal
    /\ allNotes = SimPool
    /\ FirstSetup(WideViewport)
    /\ \E draw \in WideDraws, jit \in Jitters :
           graphData = [Build(currentNote, allNotes, draw) EXCEPT
                           !.nodes = Recenter(@, width, height, jit)]
    /\ repLog = ZeroLog(Len(graphData.nodes))

\* a render with another focal note or another pool: the memo rebuilds the
\* graph and the effect runs again
Navigate(cur, pool, draw) ==
    /\ mounted
    /\ events < MaxEvents
    /\ currentNote' = cur /\ allNotes' = pool
    /\ Resetup(Build(cur, pool, draw), Capture(hoveredNode, hoverBuild))
    /\ gesture' = [Observed(gesture) EXCEPT !.clean = FALSE]
    /\ events' = events + 1
    /\ build' = build + 1
    /\ nav' = NoId /\ lastOp' = "rebuild"
    /\ UNCHANGED <<hoveredNode, hoveredLink, hoverBuild, ptr, repLog, frames>>

NextRebuild ==
    \/ Animate
    \/ \E cur \in RebuildFocals, pool \in RebuildPools, draw \in WideDraws :
           Navigate(cur, pool, draw)

SpecRebuild == InitRebuild /\ [][NextRebuild]_vars

(***************************************************************************)
(* Properties of the built graph                                           *)
(***************************************************************************)
Nodes == graphData.nodes

Links == graphData.links

NodeIds == {Nodes[i].id : i \in 1..Len(Nodes)}

\* the smart links declared by the nodes, in the order the builder visits
\* them: node by node, and link by link within a node
RECURSIVE DeclaredFrom(_)
DeclaredFrom(i) ==
    IF i > Len(Nodes) THEN <<>>
    ELSE [k \in 1..Len(Nodes[i].links) |->
             [source |-> Nodes[i].id, target |-> Nodes[i].links[k].targetId,
              reason |-> Nodes[i].links[k].reason]] \o DeclaredFrom(i + 1)

\* the declarations whose target is a node
Declared == SelectSeq(DeclaredFrom(1), LAMBDA d : d.target \in NodeIds)

SamePair(l, d) ==
    \/ (l.source = d.source /\ l.target = d.target)
    \/ (l.source = d.target /\ l.target = d.source)

Declares(a, b) ==
    \E i \in 1..Len(Nodes) : Nodes[i].id = a /\
        \E k \in 1..Len(Nodes[i].links) : Nodes[i].links[k].targetId = b

\* C1: the edge list holds at most one edge per unordered pair of node ids,
\* whatever the number and direction of the declarations, and the edge kept
\* for a pair is the first declaration of that pair in iteration order
\* (its source, target and reason).
C1_OneEdgePerPair ==
    /\ \A k1, k2 \in 1..Len(Links) : SamePair(Links[k1], Links[k2]) => k1 = k2
    /\ \A k \in 1..Len(Links) :
          \E j \in 1..Len(Declared) :
             /\ Declared[j] = Links[k]
             /\ \A j2 \in 1..(j - 1) : ~SamePair(Links[k], Declared[j2])

\* C1 witness: two nodes declare each other (a reciprocal pair), and the pair has an edge
C1_Witness ==
    \E a, b \in NodeIds :
        /\ a # b /\ Declares(a, b) /\ Declares(b, a)
        /\ \E k \in 1..Len(Links) : Links[k].source = a /\ Links[k].target = b

\* C2: exactly one node has isCurrent = TRUE, and it carries the data of the
\* supplied focal note (content length, life axis, smart links), whether the
\* pool holds no, one or several entries with the focal id.
C2_ExactlyOneCurrent ==
    /\ Cardinality({i \in 1..Len(Nodes) : Nodes[i].isCurrent}) = 1
    /\ \A i \in 1..Len(Nodes) : Nodes[i].isCurrent =>
          /\ Nodes[i].id = currentNote.id /\ Nodes[i].len = currentNote.len
          /\ Nodes[i].axis = currentNote.axis /\ Nodes[i].links = currentNote.links

\* C3: no two nodes of the node list have the same id.
C3_NodeIdsUnique ==
    \A i, j \in 1..Len(Nodes) : Nodes[i].id = Nodes[j].id => i = j

\* C4: an edge exists for the unordered pair {A,B} exactly when A declares a
\* link to B or B one to A and both are ids of nodes; a link to an id that is
\* no node's yields no edge; every edge's source and target are ids of nodes;
\* so the number of edges is the number of declared pairs (3 for a 3-cycle).
C4_EdgeIffDeclared ==
    /\ \A a, b \in Ids \cup {DanglingId} :
          (\E k \in 1..Len(Links) : SamePair(Links[k], [source |-> a, target |-> b]))
             <=> ((Declares(a, b) \/ Declares(b, a)) /\ a \in NodeIds /\ b \in NodeIds)
    /\ \A k \in 1..Len(Links) : Links[k].source \in NodeIds /\ Links[k].target \in NodeIds
    /\ Len(Links) = Cardinality({{a, b} : <<a, b>> \in
                        {p \in NodeIds \X NodeIds : Declares(p[1], p[2])}})

\* C4 witness: a node declares a link to an id that is no node's, next to a
\* declared link between two nodes
C4_Witness ==
    /\ \E a \in NodeIds : Declares(a, DanglingId)
    /\ \E a, b \in NodeIds : a # b /\ Declares(a, b)
    /\ Len(Links) >= 1

\* C5: a non-focal node's radius is 8 + min(contentLength / 500, 10): between 8
\* and 18, non-decreasing in the content length, 18 from length 5000 on; the
\* focal node's radius is 20 whatever its length, above every non-focal radius.
C5_Radius ==
    /\ \A i \in 1..Len(Nodes) :
          IF Nodes[i].isCurrent THEN Nodes[i].radius = 20 * SCALE
          ELSE /\ Nodes[i].radius * 500 =
                     8 * SCALE * 500 + (IF Nodes[i].len < 5000 THEN Nodes[i].len ELSE 5000) * SCALE
               /\ Nodes[i].radius >= 8 * SCALE /\ Nodes[i].radius <= 18 * SCALE
               /\ (Nodes[i].len >= 5000 => Nodes[i].radius = 18 * SCALE)
    /\ \A i, j \in 1..Len(Nodes) :
          /\ (~Nodes[i].isCurrent /\ ~Nodes[j].isCurrent /\ Nodes[i].len <= Nodes[j].len)
                => Nodes[i].radius <= Nodes[j].radius
          /\ (Nodes[i].isCurrent /\ ~Nodes[j].isCurrent) => Nodes[i].radius > Nodes[j].radius

\* C5 witness: a short focal note beside non-focal notes below and above the cap
C5_Witness ==
    /\ \E i \in 1..Len(Nodes) : Nodes[i].isCurrent /\ Nodes[i].len = 0
    /\ \E i, j \in 1..Len(Nodes) :
          /\ ~Nodes[i].isCurrent /\ Nodes[i].len = 4995
          /\ ~Nodes[j].isCurrent /\ Nodes[j].len = 10000

\* C10: the build yields no edge whose source equals its target, also when a
\* note declares a smart link to its own id.
C10_NoSelfEdge ==
    \A k \in 1..Len(Links) : Links[k].source # Links[k].target

(***************************************************************************)
(* Properties of the mounted view                                          *)
(***************************************************************************)
NoEdgeBetween(i, j) ==
    ~\E k \in 1..Len(Links) : SamePair(Links[k], [source |-> Nodes[i].id, target |-> Nodes[j].id])

Padding(i) == Nodes[i].radius + BOUNDARY_PAD * SCALE

\* C6: in every frame, for two nodes with no edge between them, the repulsion
\* applied to one because of the other is equal and opposite to the repulsion
\* applied to the other because of the one (here: to within a tenth of a
\* pixel per component, far above what the fixed-point rounding can cause).
C6_RepulsionSymmetric ==
    lastOp = "animate" =>
        \A i, j \in 1..Len(Nodes) :
            (i # j /\ NoEdgeBetween(i, j)) =>
                /\ Abs(repLog[i][j][1] + repLog[j][i][1]) <= SCALE \div 10
                /\ Abs(repLog[i][j][2] + repLog[j][i][2]) <= SCALE \div 10

\* C7: after a frame every node lies within [radius+10, width-radius-10] by
\* [radius+10, height-radius-10], whatever pointer and resize events came
\* before (stated here for the viewports in which that range is not empty
\* for any node).
C7_WithinBounds ==
    (/\ lastOp = "animate"
     /\ \A i \in 1..Len(Nodes) : width >= 2 * Padding(i) /\ height >= 2 * Padding(i))
    => \A i \in 1..Len(Nodes) :
          /\ Nodes[i].x >= Padding(i) /\ Nodes[i].x <= width - Padding(i)
          /\ Nodes[i].y >= Padding(i) /\ Nodes[i].y <= height - Padding(i)

\* the button was released where it went down, the pointer did not move and
\* nothing but frames happened in between
StillClick ==
    /\ lastOp = "mouseup" /\ gesture.phase = "up"
    /\ ~gesture.moved /\ gesture.clean /\ ptr = gesture.downPt

\* C8 as claimed: after a press within node X's hit radius and a release at the
\* same point with no movement, onSelectNote is called with X's id exactly
\* when X is not the focal node - for every node X whose hit radius holds the
\* point; and onSelectNote is never called with the focal id.
C8_ClickAnyHitNode ==
    /\ StillClick => \A X \in gesture.hits : (nav = Nodes[X].id) <=> ~Nodes[X].isCurrent
    /\ nav # currentNote.id

\* C8 amended: the same for X the first node in list order whose hit radius
\* holds the point; and onSelectNote is never called with the focal id.
C8_ClickFirstHitNode ==
    /\ (StillClick /\ gesture.first # 0) =>
          ((nav = Nodes[gesture.first].id) <=> ~Nodes[gesture.first].isCurrent)
    /\ nav # currentNote.id

\* C8 witness: a still click on a non-focal node, a frame between press and
\* release, has called onSelectNote with its id
C8_Witness ==
    /\ StillClick /\ gesture.first # 0 /\ gesture.frame
    /\ ~Nodes[gesture.first].isCurrent
    /\ nav = Nodes[gesture.first].id

\* C9: after a press on node X, a pointer movement longer than X's radius plus
\* the click tolerance and the release, onSelectNote has not been called.
C9_DragNeverNavigates ==
    (/\ lastOp = "mouseup" /\ gesture.phase = "up" /\ gesture.first # 0
     /\ gesture.moved /\ gesture.clean
     /\ Hypot(ptr[1] - gesture.downPt[1], ptr[2] - gesture.downPt[2])
            > Nodes[gesture.first].radius + CLICK_TOLERANCE * SCALE)
    => nav = NoId

(***************************************************************************)
(* Properties of the loop's life cycle                                     *)
(***************************************************************************)
\* C11: at most one frame callback is pending, it is the one reqRef names and
\* it belongs to the current effect run of a mounted view: the cleanup
\* (unmount or re-run) has cancelled the callback of the run it ends, so no
\* callback of a torn-down loop is left to run beside the new loop's.
C11_OneFramePending ==
    /\ Cardinality(rafPending) <= 1
    /\ \A cb \in rafPending : mounted /\ cb.loop = loop /\ cb.id = reqRef

\* C11 witness: a view whose effect re-ran and whose loop ran a frame has
\* unmounted, and no callback is pending
C11_Witness == ~mounted /\ loop > 1 /\ frames > 0 /\ rafPending = {}

\* C12: every listener attached belongs to the current effect run of a
\* mounted view, so there is at most one per event type however often the
\* effect re-ran.
C12_ListenersDetached ==
    /\ \A l \in listeners : mounted /\ l.loop = loop
    /\ \A t \in ListenerTypes : Cardinality({l \in listeners : l.type = t}) <= 1

\* C13: while the view is mounted a frame callback is pending (setup requests
\* one, every frame requests the next, a re-run requests one in the step that
\* cancels the old), and, the browser running pending callbacks, either the
\* view unmounts or frames are executed again and again for ever.
C13_RunningWhileMounted ==
    /\ [](mounted => rafPending # {})
    /\ (<>(~mounted)) \/ ([]<>(frames = 0) /\ []<>(frames = 1))

\* C13 witness: a frame has run in the loop that a rebuild restarted
C13_Witness == mounted /\ lastOp = "animate" /\ loop > 1 /\ rafPending # {}

PointerOps == {"mousedown", "mousemove", "mouseup", "mouseleave"}

\* C14: no pointer event (hovering a node or an edge, moving along an edge,
\* pressing, releasing) cancels or restarts the loop or detaches or
\* re-attaches its listeners.
C14_PointerKeepsLoop ==
    [][lastOp' \in PointerOps =>
          (loop' = loop /\ rafPending' = rafPending /\ listeners' = listeners)]_vars

(***************************************************************************)
(* Properties of dragging and hovering                                     *)
(***************************************************************************)
\* C15: after a frame in which a node is dragged, its velocity is a tenth of
\* (pointer position - node position), the pointer position being that of the
\* latest pointer event (the press or the latest move), and no repulsion was
\* added to it in the frame.
C15_DragVelocityTracksPointer ==
    (lastOp = "animate" /\ draggingNode # 0) =>
        /\ Nodes[draggingNode].vx = Div(ptr[1] - Nodes[draggingNode].x, DRAG_PULL_DIV)
        /\ Nodes[draggingNode].vy = Div(ptr[2] - Nodes[draggingNode].y, DRAG_PULL_DIV)
        /\ \A j \in 1..Len(Nodes) : repLog[draggingNode][j] = <<0, 0>>

\* the distance from node n to point p
DistTo(n, p) == Hypot(n.x - p[1], n.y - p[2])

\* C16: a frame in which a node is dragged and the pointer is not at its
\* centre moves the node nearer to the pointer.
C16_DragMovesNode ==
    [][(/\ lastOp' = "animate" /\ draggingNode # 0
        /\ DistTo(Nodes[draggingNode], ptr) > 0)
       => DistTo(Nodes'[draggingNode], ptr) < DistTo(Nodes[draggingNode], ptr)]_vars

\* the nodes whose centre is less than radius + 5 from point p
HitSet(p) == {i \in 1..Len(Nodes) : DistTo(Nodes[i], p) < Nodes[i].radius + HIT_TOLERANCE * SCALE}

\* the least member of a non-empty set of numbers
Least(S) == CHOOSE i \in S : \A j \in S : i <= j

\* C17 as claimed: the dragged node changes only on a press that hits a node
\* while none is dragged (to the first node hit, in list order) and on a
\* release (to none); a press that hits no node leaves it none.
C17_DragStateAsClaimed ==
    [][/\ draggingNode' # draggingNode =>
             \/ /\ lastOp' = "mousedown" /\ draggingNode = 0
                /\ HitSet(ptr) # {} /\ draggingNode' = Least(HitSet(ptr))
             \/ lastOp' = "mouseup" /\ draggingNode' = 0
       /\ (lastOp' = "mousedown" /\ draggingNode = 0 /\ HitSet(ptr) = {}) => draggingNode' = 0
       /\ lastOp' = "mouseup" => draggingNode' = 0]_vars

\* C17 amended: a press that hits a node makes the first node hit, in list
\* order, the dragged one (whether or not one was dragged); a press that hits
\* none changes nothing; a release, the pointer leaving the canvas and every
\* re-run of the effect (rebuild or re-render) end the drag; nothing else
\* changes the dragged node.
C17_DragState ==
    [][/\ lastOp' = "mousedown" =>
             draggingNode' = IF HitSet(ptr) # {} THEN Least(HitSet(ptr)) ELSE draggingNode
       /\ lastOp' \in {"mouseup", "mouseleave", "rebuild", "rerender"} => draggingNode' = 0
       /\ lastOp' \in {"mousemove", "animate", "resize", "unmount"} =>
             draggingNode' = draggingNode]_vars

\* C17 witness: a press where the hit radii of two nodes overlap has made the
\* first of them the dragged node
C17_Witness ==
    /\ lastOp = "mousedown" /\ Cardinality(gesture.hits) > 1
    /\ draggingNode = Least(gesture.hits)

\* C18: a pointer move changes no node; during a drag it changes only the
\* stored pointer position (not the dragged node, hoveredNode or
\* hoveredLink); and a frame during a drag gives every node but the dragged
\* one the update of a frame without drag, the repulsion from the dragged
\* node included.
C18_MoveOnlyRetargets ==
    [][/\ lastOp' = "mousemove" =>
             /\ Nodes' = Nodes
             /\ draggingNode # 0 =>
                   /\ draggingNode' = draggingNode
                   /\ hoveredNode' = hoveredNode /\ hoveredLink' = hoveredLink
                   /\ <<mouseX', mouseY'>> = ptr'
       /\ (lastOp' = "animate" /\ draggingNode # 0) =>
             \A i \in 1..Len(Nodes) : i # draggingNode =>
                 LET before == PhysicsUpTo(Nodes, Links, i - 1, draggingNode,
                                           mouseX, mouseY, width, height)
                 IN  /\ Nodes'[i] = StepNode(before, Links, i, 0, 0, 0, width, height)
                     /\ repLog'[i][draggingNode] = RepForce(before[i], Nodes[draggingNode])]_vars

\* C18 witness: a frame has run during a drag whose pointer had moved, and the
\* dragged node has pushed another node
C18_Witness ==
    /\ lastOp = "animate" /\ draggingNode # 0 /\ gesture.moved
    /\ \E i \in 1..Len(Nodes) : i # draggingNode /\ repLog[i][draggingNode] # <<0, 0>>

\* C19: hoveredNode and hoveredLink are never both set.
C19_OneHoverTarget == ~(hoveredNode # 0 /\ hoveredLink.link # 0)

\* C19 witness: the pointer has moved from a hovered link onto a node (the
\* effect re-ran for the link that is no longer hovered)
C19_Witness ==
    /\ lastOp = "mousemove" /\ hoveredNode # 0 /\ hoveredLink = NoLink /\ loop > 2

\* the links whose segment is less than 5 from point p
LinkHitSet(p) == {k \in 1..Len(Links) : LinkHit(Nodes, Links[k], p[1], p[2])}

C21_OutlineIsHovered ==
    lastOp = "animate" =>
        HoverOutlined(Nodes, seenHover, build) = (IF hoveredNode = 0 THEN {} ELSE {hoveredNode})

\* C22: a resize sets the canvas buffer to the container's size times the
\* pixel ratio (width and height being that size) and changes no node, nor the
\* drag state, the hover state or the pending frame.
C22_ResizeOnlyResizes ==
    [][lastOp' = "resize" =>
          /\ canvas'.width = width' * DevicePixelRatio
          /\ canvas'.height = height' * DevicePixelRatio
          /\ canvas'.scale = DevicePixelRatio
          /\ UNCHANGED <<graphData, draggingNode, mouseX, mouseY, hoveredNode, hoveredLink,
                         hoverBuild, seenHover, rafPending, reqRef, loop, listeners>>]_vars

\* C22 witness: the container has shrunk to nothing while a node was dragged
\* and a node hovered
C22_Witness ==
    /\ lastOp = "resize" /\ width = 0 /\ draggingNode # 0 /\ hoveredNode # 0
    /\ canvas.width = 0

\* node n but for its position and velocity
Fixed(n) == [n EXCEPT !.x = 0, !.y = 0, !.vx = 0, !.vy = 0]

\* C27: no frame, pointer event or resize changes a node's id, radius,
\* isCurrent flag or colour (or any field but x, y, vx, vy), the edge list, or
\* the notes passed in as currentNote and allNotes.
C27_OnlyMotionChanges ==
    [][lastOp' \in PointerOps \cup {"animate", "resize"} =>
          /\ Links' = Links
          /\ currentNote' = currentNote /\ allNotes' = allNotes
          /\ Len(Nodes') = Len(Nodes)
          /\ \A i \in 1..Len(Nodes) : Fixed(Nodes'[i]) = Fixed(Nodes[i])]_vars

\* C27 witness: a frame in a viewport shrunk to nothing has clamped and moved
\* the nodes
C27_Witness ==
    /\ lastOp = "animate" /\ width = 0
    /\ \E i \in 1..Len(Nodes) : Nodes[i].x < 0 /\ Nodes[i].radius > 0

\* C29: the pointer leaving the canvas ends a drag without a call of
\* onSelectNote, and a release while no node is dragged (none has been pressed
\* since) makes no call either.
C29_LeaveEndsDragSilently ==
    [][/\ lastOp' = "mouseleave" => (draggingNode' = 0 /\ nav' = NoId)
       /\ (lastOp' = "mouseup" /\ draggingNode = 0) => (draggingNode' = 0 /\ nav' = NoId)
       /\ (draggingNode = 0 /\ draggingNode' # 0) => lastOp' = "mousedown"]_vars

\* C29 witness: a node was pressed, the pointer left the canvas, came back to
\* where it was pressed and the button was released there: no call
C29_Witness ==
    /\ lastOp = "mouseup" /\ gesture.phase = "up" /\ ~gesture.clean
    /\ gesture.first # 0 /\ ~Nodes[gesture.first].isCurrent
    /\ ptr = gesture.downPt /\ nav = NoId

\* C30: hoveredNode and hoveredLink, when set, are a node and a link of the
\* current graph, never of the graph before a rebuild.
C30_HoverInCurrentGraph ==
    /\ (hoveredNode # 0 \/ hoveredLink.link # 0) => hoverBuild = build
    /\ hoveredNode <= Len(Nodes) /\ hoveredLink.link <= Len(Links)

(***************************************************************************)
(* Properties of the forces                                                *)
(***************************************************************************)
Larger(a, b) == IF a >= b THEN a ELSE b

\* the length of force f = <<fx, fy>>, in units (to the pixel for the forces
\* whose squares pass the integers' range)
Magnitude(f) ==
    IF Abs(f[1]) + Abs(f[2]) < 40000 THEN Hypot(f[1], f[2])
    ELSE SCALE * Hypot(Div(f[1], SCALE), Div(f[2], SCALE))

\* the rounding allowed between a force of magnitude m and its model
Slack(m) == m \div 50 + SCALE

\* the nodes as node i finds them when its turn comes in the frame
Before(i) == PhysicsUpTo(Nodes, Links, i - 1, draggingNode, mouseX, mouseY, width, height)

\* C24: in a frame, the repulsion added to a node that is not dragged because
\* of any other node has magnitude REPULSION / max(d, 1)^2, d their distance,
\* is directed away from the other node and is at most REPULSION.
C24_RepulsionMagnitude ==
    [][lastOp' = "animate" =>
          \A i, j \in 1..Len(Nodes) : (i # j /\ i # draggingNode) =>
              LET n == Before(i)[i]
                  o == Before(i)[j]
                  d == DistTo(n, <<o.x, o.y>>)
                  claimed == Div(REPULSION * SCALE * SCALE * SCALE,
                                 Larger(d, SCALE) * Larger(d, SCALE))
                  f == repLog'[i][j]
              IN  /\ Abs(Magnitude(f) - claimed) <= Slack(claimed)
                  /\ f[1] * (n.x - o.x) >= 0 /\ f[2] * (n.y - o.y) >= 0
                  /\ Magnitude(f) <= REPULSION * SCALE + Slack(REPULSION * SCALE)]_vars

\* C25: in a frame, the spring force a link adds to an endpoint that is not
\* dragged has magnitude |distance - 180| * 0.04 and is restoring: toward the
\* other endpoint beyond the rest length, away from it below, zero at it; a
\* node that is no endpoint of the link gets nothing from it.
C25_SpringRestoring ==
    [][lastOp' = "animate" =>
          \A i \in 1..Len(Nodes), k \in 1..Len(Links) : i # draggingNode =>
              LET ns == Before(i)
                  source == FindNode(ns, Links[k].source)
                  target == FindNode(ns, Links[k].target)
                  f == SpringForce(ns, Links[k], i)
              IN  IF i # source /\ i # target THEN f = <<0, 0>>
                  ELSE LET o == IF i = source THEN ns[target] ELSE ns[source]
                           d == DistTo(ns[i], <<o.x, o.y>>)
                           claimed == Div(Abs(d - SPRING_LENGTH * SCALE) * SPRING_STRENGTH_PCT, 100)
                       IN  /\ Abs(Magnitude(f) - claimed) <= Slack(claimed)
                           /\ d > SPRING_LENGTH * SCALE =>
                                 (f[1] * (o.x - ns[i].x) >= 0 /\ f[2] * (o.y - ns[i].y) >= 0)
                           /\ d < SPRING_LENGTH * SCALE =>
                                 (f[1] * (ns[i].x - o.x) >= 0 /\ f[2] * (ns[i].y - o.y) >= 0)
                           /\ d = SPRING_LENGTH * SCALE => f = <<0, 0>>]_vars

\* C26: when a frame's boundary tests clamp a node on an axis, the node ends
\* the frame on that boundary with that axis's velocity inverted, zero or
\* pointing back into the viewport.
C26_ElasticBounce ==
    [][lastOp' = "animate" =>
          \A i \in 1..Len(Nodes) : i # draggingNode =>
              LET pre == Integrate(Before(i), Links, i, width, height)
                  pad == Padding(i)
                  post == Nodes'[i]
              IN  /\ pre.x < pad =>
                        (post.x = pad /\ post.vx = -pre.vx /\ post.vx >= 0)
                  /\ pre.x > width - pad =>
                        (post.x = width - pad /\ post.vx = -pre.vx /\ post.vx <= 0)
                  /\ pre.y < pad =>
                        (post.y = pad /\ post.vy = -pre.vy /\ post.vy >= 0)
                  /\ pre.y > height - pad =>
                        (post.y = height - pad /\ post.vy = -pre.vy /\ post.vy <= 0)]_vars

\* the links whose two ends are one node
SelfLinks == {k \in 1..Len(Links) : Links[k].source = Links[k].target}

\* the edge list without them
NoSelfLinks == SelectSeq(Links, LAMBDA l : l.source # l.target)

\* C28: a link from a node to itself adds nothing to any node's force in a
\* frame, and the frame moves the nodes as it moves those of the graph
\* without the link.
C28_SelfLinkNoOp ==
    [][lastOp' = "animate" =>
          /\ \A i \in 1..Len(Nodes), k \in SelfLinks :
                 SpringForce(Before(i), Links[k], i) = <<0, 0>>
          /\ Nodes' = PhysicsUpTo(Nodes, NoSelfLinks, Len(Nodes), draggingNode,
                                  mouseX, mouseY, width, height)]_vars

\* C28 witness: a frame has moved the node that declares a link to itself
C28_Witness ==
    /\ lastOp = "animate" /\ SelfLinks # {}
    /\ \E k \in SelfLinks : \E i \in 1..Len(Nodes) :
           Nodes[i].id = Links[k].source /\ (Nodes[i].vx # 0 \/ Nodes[i].vy # 0)

(***************************************************************************)
(* Properties of a rebuild                                                 *)
(***************************************************************************)
\* the range of the build's draws, in units
InDrawRange(n) ==
    /\ -400 * SCALE <= n.x /\ n.x < 400 * SCALE
    /\ -300 * SCALE <= n.y /\ n.y < 300 * SCALE

\* the range of the positions the setup gives a node drawn at exactly (0, 0)
InCentreRange(n, w, h) ==
    /\ Div(w, 2) - 50 * SCALE <= n.x /\ n.x < Div(w, 2) + 50 * SCALE
    /\ Div(h, 2) - 50 * SCALE <= n.y /\ n.y < Div(h, 2) + 50 * SCALE

\* the build was made from scratch from the notes passed in, and the frames
\* that run afterwards are those of the effect run that holds it
RebuiltFromScratch ==
    /\ Len(Nodes') = Len(MergedNotes(currentNote', allNotes'))
    /\ \A i \in 1..Len(Nodes') :
           /\ Nodes'[i].id = MergedNotes(currentNote', allNotes')[i].id
           /\ Nodes'[i].vx = 0 /\ Nodes'[i].vy = 0
    /\ Links' = BuildLinks(Nodes', 1, <<>>)
    /\ \A cb \in rafPending' : cb.loop = loop'
    /\ loop' = loop + 1

\* C23 as claimed: after a change of the focal note or of the pool the graph
\* is rebuilt from scratch, every node at rest at a position drawn in
\* x in [-400, 400), y in [-300, 300), and the loop steps the new set only.
C23_RebuildAsClaimed ==
    [][lastOp' = "rebuild" =>
          /\ RebuiltFromScratch
          /\ \A i \in 1..Len(Nodes') : InDrawRange(Nodes'[i])]_vars

\* C23: after a change of the focal note or of the pool the graph is rebuilt
\* from scratch, every node at rest at a position drawn in x in [-400, 400),
\* y in [-300, 300), or, if that draw is exactly (0, 0), within 50 of the
\* viewport's centre on both axes; the loop steps the new set only.
C23_RebuildFresh ==
    [][lastOp' = "rebuild" =>
          /\ RebuiltFromScratch
          /\ \A i \in 1..Len(Nodes') :
                 \/ InDrawRange(Nodes'[i]) /\ ~(Nodes'[i].x = 0 /\ Nodes'[i].y = 0)
                 \/ InCentreRange(Nodes'[i], width', height')]_vars

\* C23 witness: after a frame has moved the nodes the focal note changed; the
\* new set holds a node of the old one, and a node the setup put beyond 400
C23_Witness ==
    /\ lastOp = "rebuild" /\ frames > 0 /\ currentNote.id = "b"
    /\ \E i \in 1..Len(Nodes) : ~InDrawRange(Nodes[i])

====
